---- MODULE Spec2Model ----
(***************************************************************************)
(* A model of netcdf_cog.py: the NetCDF -> Cloud Optimized GeoTIFF         *)
(* conversion (main, _write_cogtiff, _write_dataset) and the STAC catalog  *)
(* generation (create_jsons, create_catalogs) that follows it.             *)
(*                                                                         *)
(* One process runs at a time (the program is single threaded); a run is   *)
(* one invocation of main.  The output tree outlives the runs.  Two        *)
(* invocations running at once over one source are modelled on their own   *)
(* (SpecRace), and so is one invocation repeated over a converted output   *)
(* tree that nothing else changes (SpecCat).                               *)
(*                                                                         *)
(* File names are sequences of tokens ("fc1", "_", "PV", ".tif"), so that  *)
(* the string tests of the code (endswith, in, replace) are computed on    *)
(* the names that the code builds.  Directory and selector names are       *)
(* sequences of characters, because the code tests their first character.  *)
(* Paths are taken to be absolute (output_dir is not resolved against the  *)
(* working directory) and the runs use the configuration file              *)
(* (config_json is loaded), which may change from run to run.  The         *)
(* embedded dataset documents are well formed; a band key may have no      *)
(* label in config_json['bands'].  A failed gdal step leaves the output    *)
(* tree as it was.                                                         *)
(*                                                                         *)
(* What create_item_dict computes from the content of a descriptor (bbox,  *)
(* geometry, datetime) is modelled on its own, over descriptors of any     *)
(* content (SpecItem).                                                     *)
(***************************************************************************)
EXTENDS Integers, Sequences, FiniteSets, TLC

VARIABLES
    sources,      \* the input tree: source id -> NetCDF file (read only)
    dirs,         \* the directories under output_dir
    tifs,         \* the rasters of the output tree: [dir, name, stage]
    yamls,        \* the descriptors (*.yaml) of the output tree: [dir, name, bands]
    jsons,        \* the Item documents (*_STAC.json): [dir, name, yaml, assets]
    cats,         \* location -> the catalog.json stored there, or NoDoc
    scratch,      \* the TemporaryDirectory of _write_cogtiff: [exists, files],
                  \* its files being rasters [dir, name, stage]
    pc,           \* where main is: idle (no process), walk, extract, overview,
                  \* encode, dataset, stac, jsons, catalogs
    config,       \* [create_cog, create_stac, subfolder] of the run
    todo,         \* the sources os.walk has still to yield in this run
    cur,          \* the source being converted (0: none)
    pos,          \* index of the (subdataset, band) pair being converted
    cwd,          \* the working directory of the process
    tiles_list,   \* the tile list of the catalog stage
    ti,           \* index of the tile the running loop is at
    run,          \* number of runs started so far
    exit,         \* how the last run ended: "none" (it has not), "ok", or the
                  \* name of the exception that ended it
    \* history variables (not read by the program)
    prevDone,     \* sources that a run before this one converted and described
    everDone,     \* sources for which _write_dataset has completed
    touched,      \* sources with an extract/overview/encode call or a
                  \* descriptor write in this run
    aborted,      \* the source whose conversion a failed step aborted in this run
    written,      \* final rasters emitted by the current/last _write_cogtiff
    visited,      \* sources whose turn came in the walk of this run
    skipped,      \* sources that took the "File exists" branch in this run
    prevAborted,  \* the source whose conversion the run before aborted
    added,        \* <<directory, run>>: the directories made under output_dir,
                  \* by another hand, after catalog generation number run
                  \* ended, no conversion having run since
    prevItems,    \* the Item documents that were on disk when the run started
    prevCats,     \* cats as it was when a repeated catalog generation started
    \* the invocation, where the model fixes it
    environ,      \* [TILES, tiles, labels, order]: os.environ['TILES'] (<<>>:
                  \* not set), config_json['tiles'], config_json['bands'] and
                  \* the order os.listdir lists names in; NoDoc: any, at
                  \* every run
    \* two invocations of main running at once over one source
    procs,        \* process -> [pc, pos]: where it is (start, convert, dataset,
                  \* done, skipped, failed) and the pair it is converting
    wrote,        \* history: <<process, file name>> for every final raster and
                  \* descriptor a process has written
    \* create_item_dict on its own
    doc,          \* the descriptor document handed to create_item_dict
    item          \* the Item document create_item_dict returned

vars == <<sources, dirs, tifs, yamls, jsons, cats, scratch, pc, config, todo,
          cur, pos, cwd, tiles_list, ti, run, exit, prevDone, everDone,
          touched, aborted, written, visited, skipped, prevAborted, added,
          prevItems, prevCats, environ, procs, wrote, doc, item>>

----------------------------------------------------------------------------
(* Bounds of the model *)

\* most subdatasets of a source
MaxK == 3
\* most bands per subdataset (RasterCount)
MaxR == 2
\* most runs of main
MaxRuns == 2
\* most vertices of the outer ring of a valid-data polygon, the closing one
\* not counted
MaxVerts == 4
\* latest second of the clock of a center timestamp
MaxClock == 1

----------------------------------------------------------------------------
(* Names *)

\* band (variable) names of the NetCDF files
PV == <<"PV">>
NPV == <<"NPV">>
PV_date == <<"PV", "_observed_date">>
BS_source == <<"BS", "_source">>
ObservedDate == <<"observed_date">>
DatasetVar == <<"dataset">>

BandPool == {PV, NPV, PV_date, BS_source}

\* directory names, as characters
T1 == <<"-", "1", "5", "_", "-", "4", "0">>
T2 == <<"-", "1", "5", "_", "-", "4", "1">>
Extra == <<"e", "x", "t", "r", "a">>
Missing == <<"9", "_", "-", "4", "5">>
ALL == <<"A", "L", "L">>

\* places a catalog.json can be written to, besides the directories of dirs
OUT == <<"output_dir">>
LAUNCH == <<"launch_dir">>
LAUNCH_UP == <<"launch_dir", "..">>

\* the directory tempfile.TemporaryDirectory() makes
TMP == <<"tmpdir">>

NoDoc == [kind |-> "none"]

\* s.endswith(suffix), on tokens
EndsWith(name, suffix) ==
    Len(name) > 0 /\ name[Len(name)] = suffix

\* (token in name), on tokens
Contains(name, token) ==
    \E i \in 1..Len(name) : name[i] = token

\* name.replace(old, new), on tokens: every occurrence is replaced
RECURSIVE Replace(_, _, _)
Replace(name, old, new) ==
    IF name = <<>> THEN <<>>
    ELSE (IF Head(name) = old THEN new ELSE <<Head(name)>>)
         \o Replace(Tail(name), old, new)

\* str(n)
Str(n) == ToString(n)

----------------------------------------------------------------------------
(* The naming conventions *)

\* get_bandname: the last ':'-separated field of the subdataset name
get_bandname(filename) == filename[Len(filename)]

\* the test of _write_cogtiff that skips a band
Reserved(band_name) ==
    EndsWith(band_name, "_observed_date") \/ EndsWith(band_name, "_source")

\* OutFname with the band number left out of the name
OutFname_NoOrdinal(base, rastercount, count, band_name) ==
    <<base, "_">> \o band_name \o <<".tif">>

\* out_fname of _write_cogtiff, relative to the directory of the source
OutFname(base, rastercount, count, band_name) ==
    IF rastercount > 1
    THEN <<base, "_", Str(count), "_">> \o band_name \o <<".tif">>
    ELSE <<base, "_">> \o band_name \o <<".tif">>

\* value['path'] of add_image_path; count is the 0-based loop variable
ImagePath(base, rastercount, count, key) ==
    IF rastercount > 1
    THEN <<base, "_", Str(count + 1), "_">> \o key \o <<".tif">>
    ELSE <<base, "_">> \o key \o <<".tif">>

\* add_image_path: every key of the band map gets a path
add_image_path(keys, base, rastercount, count) ==
    [key \in keys |-> ImagePath(base, rastercount, count, key)]

\* YamlFname with the band number left out of the name
YamlFname_NoOrdinal(base, rastercount, count) ==
    <<base, ".yaml">>

\* y_fname of _write_dataset
YamlFname(base, rastercount, count) ==
    IF rastercount > 1
    THEN <<base, "_", Str(count + 1), ".yaml">>
    ELSE <<base, ".yaml">>

\* yaml_file of main: the descriptor whose existence gates the conversion
GateYaml(base) == <<base, ".yaml">>

----------------------------------------------------------------------------
(* The sources *)

K(s) == Len(sources[s].subdatasets)
R(s) == sources[s].rastercount

\* LoopPairs over every subdataset, the last one too
RECURSIVE LoopPairs_WithLast(_, _, _)
LoopPairs_WithLast(k, r, i) ==
    IF i > k THEN <<>>
    ELSE [c \in 1..r |-> <<i, c>>] \o LoopPairs_WithLast(k, r, i + 1)

\* the (subdataset index, band number) pairs in the order of the two loops
\* of _write_cogtiff: subdatasets[:-1], then range(1, rastercount + 1)
RECURSIVE LoopPairs(_, _, _)
LoopPairs(k, r, i) ==
    IF i > k - 1 THEN <<>>
    ELSE [c \in 1..r |-> <<i, c>>] \o LoopPairs(k, r, i + 1)

\* the pairs the loops do not skip
Eligible(s) ==
    SelectSeq(LoopPairs(K(s), R(s), 1),
              LAMBDA p : ~Reserved(get_bandname(sources[s].subdatasets[p[1]])))

\* the final raster of pair number p of source s
PairFile(s, p) ==
    LET pr == Eligible(s)[p]
    IN  [dir |-> sources[s].dir,
         name |-> OutFname(sources[s].base, R(s), pr[2],
                           get_bandname(sources[s].subdatasets[pr[1]])),
         stage |-> "cog"]

\* DescriptorExists that also holds while another process is converting
\* the source (a lock taken with the check)
DescriptorExists_OrInProgress(s) ==
    \/ \E y \in yamls : y.dir = sources[s].dir /\ y.name = GateYaml(sources[s].base)
    \/ \E p \in DOMAIN procs : procs[p].pc \in {"convert", "dataset"}

\* os.path.exists(yaml_file) in main
DescriptorExists(s) ==
    \E y \in yamls : y.dir = sources[s].dir /\ y.name = GateYaml(sources[s].base)

\* Descriptors with one descriptor for each subdataset that is converted
Descriptors_PerSubdataset(s) ==
    { [dir |-> sources[s].dir,
       name |-> <<sources[s].base, "_">>
                \o get_bandname(sources[s].subdatasets[Eligible(s)[p][1]])
                \o <<".yaml">>,
       bands |-> add_image_path(sources[s].bands, sources[s].base, R(s), 0)] :
         p \in 1..Len(Eligible(s)) }

\* the descriptors _write_dataset writes for a source
Descriptors(s) ==
    LET n == IF R(s) > 1 THEN R(s) ELSE 1
    IN  { [dir |-> sources[s].dir,
           name |-> YamlFname(sources[s].base, R(s), count),
           bands |-> add_image_path(sources[s].bands, sources[s].base,
                                    R(s), count)] : count \in 0..(n - 1) }

\* writing a file replaces the file of that name
WriteFiles(old, new) ==
    { f \in old : ~\E g \in new : g.dir = f.dir /\ g.name = f.name } \cup new

----------------------------------------------------------------------------
(* Conversion: main, lines 786-813 *)

\* config_json['bands'] of netcdf_cog.json, which main reads at every run:
\* the label of a band key.  The short table has no label for NPV.
LabelTables == {"long", "short"}

Labels(table) ==
    IF table = "long"
    THEN (PV :> "Photosynthetic Vegetation" @@ NPV :> "Non-Green Vegetation"
          @@ PV_date :> "Observation Date" @@ ObservedDate :> "Observation Date")
    ELSE (PV :> "Green" @@ PV_date :> "Date")

NoScratch == [exists |-> FALSE, files |-> {}]

\* a run of main starts with subfolder f and the label table t; os.walk
\* will yield the sources under the subfolder
StartRunWith(cog, stac, f, t) ==
    /\ pc = "idle"
    /\ run < MaxRuns
    /\ config' = [create_cog |-> cog, create_stac |-> stac,
                  subfolder |-> f,
                  labels |-> IF stac THEN t ELSE "long"]
    /\ todo' = IF cog
               THEN { s \in DOMAIN sources : sources[s].folder = f }
               ELSE {}
    /\ run' = run + 1
    /\ pc' = IF cog THEN "walk" ELSE "stac"
    /\ cwd' = LAUNCH
    /\ exit' = "none"
    /\ prevDone' = everDone
    /\ touched' = {}
    /\ visited' = {}
    /\ skipped' = {}
    /\ prevAborted' = aborted
    /\ aborted' = 0
    /\ written' = {}
    /\ tiles_list' = <<>>
    /\ ti' = 1
    /\ added' = IF cog THEN {} ELSE added
    /\ prevItems' = jsons
    /\ UNCHANGED <<environ, procs, wrote, doc, item, sources, dirs, tifs,
                   yamls, jsons, cats, scratch, cur, pos, everDone>>

\* a run of main starts, with any subfolder and any label table
StartRun(cog, stac) ==
    /\ pc = "idle"
    /\ \E f \in { sources[s].folder : s \in DOMAIN sources }, t \in LabelTables :
          StartRunWith(cog, stac, f, t)
    /\ UNCHANGED prevCats

\* the descriptor of the source exists: the else branch of line 811
SkipSource(s) ==
    /\ pc = "walk"
    /\ s \in todo
    /\ DescriptorExists(s)
    /\ dirs' = dirs \cup {sources[s].dir}
    /\ todo' = todo \ {s}
    /\ visited' = visited \cup {s}
    /\ skipped' = skipped \cup {s}
    /\ UNCHANGED <<prevCats, environ, procs, wrote, doc, item, prevItems, added, sources, tifs, yamls, jsons, cats, scratch, pc, config, cur,
                   pos, cwd, tiles_list, ti, run, exit, prevDone, everDone,
                   touched, aborted, written, prevAborted>>

\* where _write_cogtiff goes after pair p - 1: to pair p, or out of the
\* with block (the scratch directory is removed) and on to _write_dataset
EnterPair(s, p) ==
    IF p <= Len(Eligible(s))
    THEN /\ pc' = "extract"
         /\ pos' = p
         /\ scratch' = [exists |-> TRUE, files |-> scratch.files]
    ELSE /\ pc' = "dataset"
         /\ pos' = 0
         /\ scratch' = NoScratch

\* BeginSource with the two calls of main swapped: _write_dataset first
BeginSource_DatasetFirst(s) ==
    /\ pc = "walk"
    /\ s \in todo
    /\ ~DescriptorExists(s)
    /\ dirs' = dirs \cup {sources[s].dir}
    /\ yamls' = WriteFiles(yamls, Descriptors(s))
    /\ cur' = s
    /\ visited' = visited \cup {s}
    /\ written' = {}
    /\ EnterPair(s, 1)
    /\ UNCHANGED <<prevCats, environ, procs, wrote, doc, item, prevItems, added, sources, tifs, jsons, cats, config, todo, cwd, tiles_list,
                   ti, run, exit, prevDone, everDone, touched, aborted,
                   skipped, prevAborted>>

\* no descriptor: getfilename makes the directory, _write_cogtiff is entered
BeginSource(s) ==
    /\ pc = "walk"
    /\ s \in todo
    /\ ~DescriptorExists(s)
    /\ dirs' = dirs \cup {sources[s].dir}
    /\ cur' = s
    /\ visited' = visited \cup {s}
    /\ written' = {}
    /\ EnterPair(s, 1)
    /\ UNCHANGED <<prevCats, environ, procs, wrote, doc, item, prevItems, added, sources, tifs, yamls, jsons, cats, config, todo, cwd,
                   tiles_list, ti, run, exit, prevDone, everDone, touched,
                   aborted, skipped, prevAborted>>

\* Abort with a scratch directory that is not removed when a step fails
\* (tempfile.mkdtemp in place of the with block)
Abort_KeepsScratch ==
    /\ pc' = "idle"
    /\ exit' = "RuntimeError"
    /\ scratch' = scratch
    /\ aborted' = cur
    /\ cur' = 0
    /\ pos' = 0
    /\ todo' = {}

\* Abort with the exception caught in the loop of main, which goes on
Abort_Continues ==
    /\ pc' = "walk"
    /\ exit' = exit
    /\ scratch' = NoScratch
    /\ aborted' = cur
    /\ cur' = 0
    /\ pos' = 0
    /\ todo' = todo \ {cur}

\* run_command raised RuntimeError: the with block removes the scratch
\* directory, nothing in main catches the exception, the process ends
Abort ==
    /\ pc' = "idle"
    /\ exit' = "RuntimeError"
    /\ scratch' = NoScratch
    /\ aborted' = cur
    /\ cur' = 0
    /\ pos' = 0
    /\ todo' = {}

\* the temporary raster of the pair being converted
TempName == PairFile(cur, pos).name

\* gdal_translate -b count: the band is extracted into the scratch directory
Extract(ok) ==
    /\ pc = "extract"
    /\ touched' = touched \cup {cur}
    /\ IF ok
       THEN /\ scratch' = [scratch EXCEPT !.files =
                              WriteFiles(@, {[dir |-> TMP, name |-> TempName,
                                              stage |-> "raw"]})]
            /\ pc' = "overview"
            /\ UNCHANGED <<cur, pos, todo, exit, aborted>>
       ELSE Abort
    /\ UNCHANGED <<prevCats, environ, procs, wrote, doc, item, prevItems, added, sources, dirs, tifs, yamls, jsons, cats, config, cwd,
                   tiles_list, ti, run, prevDone, everDone, written, visited, skipped, prevAborted>>

\* gdaladdo: the overviews are added to the temporary raster
Overview(ok) ==
    /\ pc = "overview"
    /\ IF ok
       THEN /\ scratch' = [scratch EXCEPT !.files =
                              WriteFiles(@, {[dir |-> TMP, name |-> TempName,
                                              stage |-> "ovr"]})]
            /\ pc' = "encode"
            /\ UNCHANGED <<cur, pos, todo, exit, aborted>>
       ELSE Abort
    /\ UNCHANGED <<prevCats, environ, procs, wrote, doc, item, prevItems, added, sources, dirs, tifs, yamls, jsons, cats, config, cwd,
                   tiles_list, ti, run, prevDone, everDone, touched, written,
                   visited, skipped, prevAborted>>

\* gdal_translate -co ...: the temporary raster is encoded to out_fname
Encode(ok) ==
    /\ pc = "encode"
    /\ IF ok
       THEN /\ tifs' = tifs \cup {PairFile(cur, pos)}
            /\ written' = written \cup {PairFile(cur, pos)}
            /\ EnterPair(cur, pos + 1)
            /\ UNCHANGED <<cur, todo, exit, aborted>>
       ELSE /\ Abort
            /\ UNCHANGED <<tifs, written>>
    /\ UNCHANGED <<prevCats, environ, procs, wrote, doc, item, prevItems, added, sources, dirs, yamls, jsons, cats, config, cwd, tiles_list,
                   ti, run, prevDone, everDone, touched, visited, skipped,
                   prevAborted>>

\* _write_dataset: one descriptor per band number (one in all when
\* rastercount is 1), then the loop of main goes on
WriteDataset ==
    /\ pc = "dataset"
    /\ yamls' = WriteFiles(yamls, Descriptors(cur))
    /\ everDone' = everDone \cup {cur}
    /\ touched' = touched \cup {cur}
    /\ todo' = todo \ {cur}
    /\ cur' = 0
    /\ pc' = "walk"
    /\ UNCHANGED <<prevCats, environ, procs, wrote, doc, item, prevItems, added, sources, dirs, tifs, jsons, cats, scratch, config, pos, cwd,
                   tiles_list, ti, run, exit, prevDone, aborted, written,
                   visited, skipped, prevAborted>>

\* os.walk is exhausted
EndWalk ==
    /\ pc = "walk"
    /\ todo = {}
    /\ pc' = "stac"
    /\ UNCHANGED <<prevCats, environ, procs, wrote, doc, item, prevItems, added, sources, dirs, tifs, yamls, jsons, cats, scratch, config,
                   todo, cur, pos, cwd, tiles_list, ti, run, exit, prevDone,
                   everDone, touched, aborted, written, visited, skipped, prevAborted>>

\* "Yes" not in create_stac: main returns
Finish ==
    /\ pc = "stac"
    /\ ~config.create_stac
    /\ pc' = "idle"
    /\ exit' = "ok"
    /\ UNCHANGED <<prevCats, environ, procs, wrote, doc, item, prevItems, added, sources, dirs, tifs, yamls, jsons, cats, scratch, config,
                   todo, cur, pos, cwd, tiles_list, ti, run, prevDone,
                   everDone, touched, aborted, written, visited, skipped, prevAborted>>

----------------------------------------------------------------------------
(* Catalog generation: main, lines 816-837 *)

\* the names a selector is made of
SelNames == {T1, T2, Missing, ALL}

\* TILES / config_json['tiles'] after split(',')
Selectors ==
    { <<t>> : t \in SelNames } \cup { <<t, u>> : t, u \in SelNames }

\* (sub in name), on characters
HasSubstring(name, sub) ==
    \E i \in 0..(Len(name) - Len(sub)) :
        \A j \in 1..Len(sub) : name[i + j] = sub[j]

\* the orders os.listdir can return a set of names in
Orders(S) ==
    { q \in [1..Cardinality(S) -> S] : \A i, j \in 1..Cardinality(S) :
                                          i # j => q[i] # q[j] }

\* SelectTiles with the configured selector always taken
SelectTiles_ConfiguredFirst(env, configured) == configured

\* lines 818-826: the environment's selector (<<>>: TILES is not set),
\* else the configured one
SelectTiles(env, configured) ==
    IF env # <<>> THEN env ELSE configured

\* re.match(r'[^\d-]', tile): the first character is neither a digit nor '-'
Digits == {"0", "1", "2", "3", "4", "5", "6", "7", "8", "9"}

\* RejectedTile with no name turned away
RejectedTile_Never(tile) == FALSE

RejectedTile(tile) ==
    Len(tile) > 0 /\ tile[1] \notin Digits \cup {"-"}

\* the catalog stage starts: the tile list is resolved (lines 818-830)
\* from the selector sel, os.listdir returning the directories as listing
ResolveTilesWith(sel, listing) ==
    /\ pc = "stac"
    /\ config.create_stac
    /\ tiles_list' = IF HasSubstring(sel[1], ALL) THEN listing ELSE sel
    /\ pc' = "jsons"
    /\ ti' = 1
    /\ UNCHANGED <<prevCats, environ, procs, wrote, doc, item, prevItems, added, sources, dirs, tifs, yamls, jsons, cats, scratch, config,
                   todo, cur, pos, cwd, run, exit, prevDone, everDone, touched,
                   aborted, written, visited, skipped, prevAborted>>

\* the catalog stage starts, with any selector and any order of listing
ResolveTiles ==
    /\ pc = "stac"
    /\ \E sel \in { SelectTiles(env, configured) :
                       env \in Selectors \cup {<<>>}, configured \in Selectors } :
          IF HasSubstring(sel[1], ALL)
          THEN \E q \in Orders(dirs) : ResolveTilesWith(sel, q)
          ELSE ResolveTilesWith(sel, <<>>)

\* the name of every catalog document
CatalogName == <<"catalog", ".json">>

\* base_url after os.path.join(base_url, '') and config_json['product']['code']
BaseUrl == "https://host/"
Product == "FCP"

\* the href of the self link of an Item (line 156): the parameter named
\* item there is the tile that create_jsons passes
ItemSelfHref(tile, item_json_file) ==
    <<BaseUrl, tile, "/", item_json_file>>

\* the href of the self link of a tile catalog (line 225)
TileSelfHref(tile) ==
    <<BaseUrl, Product, "/", tile, "/", CatalogName>>

\* item_json_file of create_jsons
ItemFname(yaml_name) == Replace(yaml_name, ".yaml", <<"_STAC", ".json">>)

\* the exception create_item_dict raises for a descriptor ("none": it
\* returns): config_json['bands'][key] of line 166 with a key the table lacks
ItemRaises(y, table) ==
    IF \E key \in DOMAIN y.bands : key \notin DOMAIN Labels(table)
    THEN "KeyError"
    ELSE "none"

\* the except clause of create_jsons (line 533)
Caught(exception) == exception = "NameError"

\* item_dict['assets'] of create_item_dict (lines 162-172): label -> href
Assets(bands, table) ==
    LET L == Labels(table)
    IN  [label \in { <<L[key], " GeoTIFF">> : key \in DOMAIN bands } |->
            bands[CHOOSE key \in DOMAIN bands : <<L[key], " GeoTIFF">> = label]]

\* the Item document create_jsons writes for a descriptor
ItemOf(y, table) ==
    [dir |-> y.dir, name |-> ItemFname(y.name), yaml |-> y.name,
     self |-> ItemSelfHref(y.dir, ItemFname(y.name)),
     assets |-> Assets(y.bands, table)]

\* the descriptors glob.glob("*.yaml") finds in a tile directory
Globbed(tile) == { y \in yamls : y.dir = tile }

\* the descriptors for which create_item_dict raises an exception that the
\* except clause does not catch
Uncaught(tile) ==
    { y \in Globbed(tile) : LET e == ItemRaises(y, config.labels)
                            IN  e # "none" /\ ~Caught(e) }

\* WriteItems with an Item that is there kept as it is
WriteItems_KeepsExisting(old, new) == WriteFiles(new, old)

\* open(item_json_file, 'w') and json.dump (lines 530-531): the Item
\* replaces the one of that name
WriteItems(old, new) == WriteFiles(old, new)

\* create_jsons, one turn of its loop over tiles_list (lines 507-534).  The
\* Items are written in the order of glob.glob, which is any order: when a
\* descriptor raises an uncaught exception, any of the other descriptors of
\* the tile may have had their Items written before it
JsonsTile ==
    /\ pc = "jsons"
    /\ ti <= Len(tiles_list)
    /\ LET tile == tiles_list[ti]
       IN  IF ~RejectedTile(tile) /\ tile \in dirs
           THEN /\ cwd' = tile
                /\ IF Uncaught(tile) = {}
                   THEN /\ jsons' = WriteItems(jsons,
                                        { ItemOf(y, config.labels) :
                                            y \in Globbed(tile) })
                        /\ ti' = ti + 1
                        /\ UNCHANGED <<pc, exit>>
                   ELSE /\ \E y \in Uncaught(tile) :
                           \E before \in SUBSET (Globbed(tile) \ Uncaught(tile)) :
                              /\ jsons' = WriteItems(jsons,
                                              { ItemOf(z, config.labels) :
                                                  z \in before })
                              /\ exit' = ItemRaises(y, config.labels)
                        /\ pc' = "idle"
                        /\ UNCHANGED ti
           ELSE /\ ti' = ti + 1
                /\ UNCHANGED <<cwd, jsons, pc, exit>>
    /\ UNCHANGED <<prevCats, environ, procs, wrote, doc, item, prevItems, added, sources, dirs, tifs, yamls, cats, scratch,
                   config, todo, cur, pos, tiles_list, run, prevDone, everDone,
                   touched, aborted, written, visited, skipped, prevAborted>>

\* create_jsons returns, create_catalogs is called (line 836)
JsonsDone ==
    /\ pc = "jsons"
    /\ ti > Len(tiles_list)
    /\ pc' = "catalogs"
    /\ ti' = 1
    /\ UNCHANGED <<prevCats, environ, procs, wrote, doc, item, prevItems, added, sources, dirs, tifs, yamls, jsons, cats, scratch, config,
                   todo, cur, pos, cwd, tiles_list, run, exit, prevDone,
                   everDone, touched, aborted, written, visited, skipped, prevAborted>>

\* os.listdir(tile_dir): the names of the files of a directory
ListDir(d) ==
    { f.name : f \in { g \in tifs : g.dir = d } }
    \cup { f.name : f \in { g \in yamls : g.dir = d } }
    \cup { f.name : f \in { g \in jsons : g.dir = d } }
    \cup (IF cats[d] # NoDoc THEN {CatalogName} ELSE {})

\* ItemLinks with every .json name taken, catalog.json too
ItemLinks_AnyJson(d) ==
    { n \in ListDir(d) : Contains(n, ".json") }

\* the item links of create_catalogs (lines 215-217)
ItemLinks(d) ==
    { n \in ListDir(d) : Contains(n, ".json") /\ ~Contains(n, "catalog") }

\* the file that open('catalog.json', 'w') names: it is relative to the
\* working directory
TileCatalogPlace(tile) == cwd

\* create_catalogs, one turn of its loop over tiles_list (lines 209-241);
\* os.listdir raises FileNotFoundError for a tile without a directory
CatalogTile ==
    /\ pc = "catalogs"
    /\ ti <= Len(tiles_list)
    /\ LET tile == tiles_list[ti]
       IN  IF tile \in dirs
           THEN /\ cats' = [cats EXCEPT ![TileCatalogPlace(tile)] =
                               [kind |-> "tile", name |-> tile,
                                self |-> TileSelfHref(tile),
                                items |-> ItemLinks(tile)]]
                /\ ti' = ti + 1
                /\ UNCHANGED <<pc, exit>>
           ELSE /\ pc' = "idle"
                /\ exit' = "FileNotFoundError"
                /\ UNCHANGED <<cats, ti>>
    /\ UNCHANGED <<prevCats, environ, procs, wrote, doc, item, prevItems, added, sources, dirs, tifs, yamls, jsons, scratch, config, todo,
                   cur, pos, cwd, tiles_list, run, prevDone, everDone, touched,
                   aborted, written, visited, skipped, prevAborted>>

\* '../catalog.json', relative to the working directory
ParentOf(d) == IF d = LAUNCH THEN LAUNCH_UP ELSE OUT

\* ChildLinks limited to the tiles of the selector
ChildLinks_Selected ==
    { d \in dirs : \E i \in 1..Len(tiles_list) : tiles_list[i] = d }

\* the child links of the root catalog (lines 296-300)
ChildLinks == { d \in dirs : TRUE }

\* create_catalogs after its loop (lines 243-342): the root catalog.  With
\* an empty tiles_list the name product is unbound at line 246 and the
\* function raises
RootCatalog ==
    /\ pc = "catalogs"
    /\ ti > Len(tiles_list)
    /\ IF tiles_list # <<>>
       THEN /\ cats' = [cats EXCEPT ![ParentOf(cwd)] =
                           [kind |-> "root", children |-> ChildLinks]]
            /\ exit' = "ok"
       ELSE /\ exit' = "UnboundLocalError"
            /\ UNCHANGED cats
    /\ pc' = "idle"
    /\ UNCHANGED <<prevCats, environ, procs, wrote, doc, item, prevItems, added, sources, dirs, tifs, yamls, jsons, scratch, config, todo,
                   cur, pos, cwd, tiles_list, ti, run, prevDone, everDone,
                   touched, aborted, written, visited, skipped, prevAborted>>

\* the same invocation of main is made again, for catalog generation only
\* (create_cog is not "Yes"): the label table is the one of environ
StartSame ==
    /\ environ # NoDoc
    /\ StartRunWith(FALSE, TRUE, "batch1", environ.labels)
    /\ prevCats' = cats

\* os.listdir(output_dir) filtered by isdir (lines 829-830), in the order
\* of environ
Listing(S) == SelectSeq(environ.order, LAMBDA d : d \in S)

\* the catalog stage starts, with the selectors and the listing of environ
ResolveSame ==
    /\ environ # NoDoc
    /\ ResolveTilesWith(SelectTiles(environ.TILES, environ.tiles), Listing(dirs))

\* the tile directories that may appear under output_dir without a
\* conversion of this program
NewTiles == {Missing}

\* after a catalog generation and before the next run, a directory is made
\* under output_dir by another hand; the listings of lines 296 and 829 read
\* whatever is there
AddTileDir(d) ==
    /\ pc = "idle"
    /\ exit = "ok"
    /\ config.create_stac
    /\ run < MaxRuns
    /\ d \notin dirs
    /\ dirs' = dirs \cup {d}
    /\ added' = added \cup {<<d, run>>}
    /\ UNCHANGED <<prevCats, environ, procs, wrote, doc, item, prevItems, sources, tifs, yamls, jsons, cats, scratch, pc,
                   config, todo, cur, pos, cwd, tiles_list, ti, run, exit,
                   prevDone, everDone, touched, aborted, written, visited,
                   skipped, prevAborted>>

----------------------------------------------------------------------------
(* Two invocations of main at once: lines 803-812 in each of them *)

\* the processes
Procs == {1, 2}

\* where a process goes after pair p - 1 of _write_cogtiff
NextPair(s, p) ==
    IF p <= Len(Eligible(s))
    THEN [pc |-> "convert", pos |-> p]
    ELSE [pc |-> "dataset", pos |-> 0]

\* process p evaluates os.path.exists(yaml_file) (line 803) and takes the
\* branch: _write_cogtiff, or "File exists"
MainCheck(p, s) ==
    /\ procs[p].pc = "start"
    /\ IF DescriptorExists(s)
       THEN /\ procs' = [procs EXCEPT ![p] = [pc |-> "skipped", pos |-> 0]]
       ELSE /\ procs' = [procs EXCEPT ![p] = NextPair(s, 1)]
    /\ dirs' = dirs \cup {sources[s].dir}
    /\ UNCHANGED <<prevCats, environ, wrote, doc, item, prevItems, added,
                   sources, tifs, yamls, jsons, cats, scratch, pc, config,
                   todo, cur, pos, cwd, tiles_list, ti, run, exit, prevDone,
                   everDone, touched, aborted, written, visited, skipped,
                   prevAborted>>

\* process p converts one pair: extract and overview in its own temporary
\* directory, then the encode to out_fname in the output tree; a failed
\* step raises RuntimeError, which ends the process
CogtiffPair(p, s, ok) ==
    /\ procs[p].pc = "convert"
    /\ IF ok
       THEN /\ tifs' = tifs \cup {PairFile(s, procs[p].pos)}
            /\ wrote' = wrote \cup {<<p, PairFile(s, procs[p].pos).name>>}
            /\ procs' = [procs EXCEPT ![p] = NextPair(s, procs[p].pos + 1)]
       ELSE /\ procs' = [procs EXCEPT ![p] = [pc |-> "failed", pos |-> 0]]
            /\ UNCHANGED <<tifs, wrote>>
    /\ UNCHANGED <<prevCats, environ, doc, item, prevItems, added, sources,
                   dirs, yamls, jsons, cats, scratch, pc, config, todo, cur,
                   pos, cwd, tiles_list, ti, run, exit, prevDone, everDone,
                   touched, aborted, written, visited, skipped, prevAborted>>

\* process p runs _write_dataset and is through with the source
DatasetWrite(p, s) ==
    /\ procs[p].pc = "dataset"
    /\ yamls' = WriteFiles(yamls, Descriptors(s))
    /\ wrote' = wrote \cup { <<p, y.name>> : y \in Descriptors(s) }
    /\ procs' = [procs EXCEPT ![p] = [pc |-> "done", pos |-> 0]]
    /\ UNCHANGED <<prevCats, environ, doc, item, prevItems, added, sources,
                   dirs, tifs, jsons, cats, scratch, pc, config, todo, cur,
                   pos, cwd, tiles_list, ti, run, exit, prevDone, everDone,
                   touched, aborted, written, visited, skipped, prevAborted>>

----------------------------------------------------------------------------
(* The content of an Item: create_item_dict, lines 89-143 *)

\* pyproj's transform(albers, geo, x, y) on a grid: x and y count from the
\* origin of EPSG:3577 (132 E), lon and lat are in tenths of a degree.  As
\* in the conic projection, the meridians draw together northwards and a
\* line of constant y bends in latitude.
transform(p) ==
    <<1320 + p[1] * (12 - p[2]), (9 * p[2] + p[1] * p[1]) - 270>>

\* create_geodata (lines 176-192): the loop runs over valid_coord[0], the
\* first ring of the polygon
create_geodata(valid_coord) ==
    [r \in 1..Len(valid_coord) |->
        IF r = 1
        THEN [i \in 1..Len(valid_coord[1]) |-> transform(valid_coord[1][i])]
        ELSE valid_coord[r]]

\* the UTC offset, in minutes, that dateutil's parse reads from the zone
\* part of a timestamp ("": there is none)
UTCOffset(zone) ==
    CASE zone = "Z" -> 0
      [] zone = "+00:00" -> 0
      [] zone = "+10:00" -> 600
      [] zone = "-03:30" -> 0 - 210

\* the zone part isoformat() writes for an offset
FormatOffset(minutes) ==
    CASE minutes = 0 -> "+00:00"
      [] minutes = 600 -> "+10:00"
      [] minutes = 0 - 210 -> "-03:30"

\* tzinfo of a naive datetime, and of one with an offset
None == <<>>
tzoffset(minutes) == <<minutes>>

\* parse(ard_metadata['extent']['center_dt']): a datetime, naive when the
\* text has no zone part
parse(text) ==
    [clock |-> text.clock, microsecond |-> text.frac,
     tzinfo |-> IF text.zone = "" THEN None
                ELSE tzoffset(UTCOffset(text.zone))]

\* datetime.isoformat(): the fraction is written only when it is not 0
isoformat(dt) ==
    [clock |-> dt.clock, frac |-> dt.microsecond,
     zone |-> IF dt.tzinfo = None THEN "" ELSE FormatOffset(dt.tzinfo[1])]

\* center_dt_iso with UTC put on every timestamp, zoned or not
center_dt_iso_AlwaysUTC(text) ==
    LET center_dt == [parse(text) EXCEPT !.microsecond = 0]
    IN  isoformat([center_dt EXCEPT !.tzinfo = tzoffset(0)])

\* lines 129-135: the center timestamp of the Item
center_dt_iso(text) ==
    LET center_dt == [parse(text) EXCEPT !.microsecond = 0]
    IN  IF center_dt.tzinfo = None
        THEN isoformat([center_dt EXCEPT !.tzinfo = tzoffset(0)])
        ELSE isoformat(center_dt)

\* create_item_dict: the keys of the Item that are computed from the
\* descriptor (the assets are Assets, above)
create_item_dict(ard_metadata) ==
    [kind |-> "item",
     bbox |-> <<ard_metadata.coord.ll.lon, ard_metadata.coord.ll.lat,
                ard_metadata.coord.ur.lon, ard_metadata.coord.ur.lat>>,
     geometry |-> create_geodata(ard_metadata.valid_data),
     datetime |-> center_dt_iso(ard_metadata.center_dt)]

\* create_item_dict is called with a descriptor
CreateItem ==
    /\ doc # NoDoc
    /\ item = NoDoc
    /\ item' = create_item_dict(doc)
    /\ UNCHANGED <<prevCats, environ, procs, wrote, doc, prevItems, added, sources, dirs, tifs, yamls, jsons, cats,
                   scratch, pc, config, todo, cur, pos, cwd, tiles_list, ti,
                   run, exit, prevDone, everDone, touched, aborted, written,
                   visited, skipped, prevAborted>>

----------------------------------------------------------------------------
(* The descriptors create_item_dict is given *)

\* the corners, in EPSG:3577, of the tile whose lower left corner is at
\* x0 (y = 0)
Corner(x0) ==
    [ll |-> <<x0, 0>>, lr |-> <<x0 + 3, 0>>,
     ul |-> <<x0, 3>>, ur |-> <<x0 + 3, 3>>]

\* extent.coord of the descriptor of a tile: each corner in lon, lat
Coord(x0) ==
    [c \in {"ll", "lr", "ul", "ur"} |->
        [lon |-> transform(Corner(x0)[c])[1],
         lat |-> transform(Corner(x0)[c])[2]]]

Min(S) == CHOOSE m \in S : \A n \in S : m <= n
Max(S) == CHOOSE m \in S : \A n \in S : m >= n

\* extent.coord of a descriptor whose corners are those of the box, in
\* lon and lat, around the outer ring of its polygon
BoxCoord(ring) ==
    LET lons == { transform(ring[i])[1] : i \in 1..Len(ring) }
        lats == { transform(ring[i])[2] : i \in 1..Len(ring) }
    IN  [ll |-> [lon |-> Min(lons), lat |-> Min(lats)],
         lr |-> [lon |-> Max(lons), lat |-> Min(lats)],
         ul |-> [lon |-> Min(lons), lat |-> Max(lats)],
         ur |-> [lon |-> Max(lons), lat |-> Max(lats)]]

\* the outer rings: 3 to MaxVerts different corners of the tile in any
\* order, closed (the first vertex is repeated at the end) or not
OuterRings(x0) ==
    LET C == { Corner(x0)[c] : c \in {"ll", "lr", "ul", "ur"} }
        open == UNION { { q \in [1..n -> C] :
                            \A i, j \in 1..n : i # j => q[i] # q[j] } :
                        n \in 3..MaxVerts }
    IN  open \cup { Append(q, q[1]) : q \in open }

\* a closed inner ring (a hole) within the tile
InnerRing(x0) ==
    <<<<x0 + 1, 1>>, <<x0 + 2, 1>>, <<x0 + 1, 2>>, <<x0 + 1, 1>>>>

\* the texts of center timestamps
Timestamps ==
    [clock : 0..MaxClock, frac : {0, 500000},
     zone : {"", "Z", "+10:00", "-03:30"}]

\* the descriptors of the tile at x0 with a given outer ring: with and
\* without a hole, the extent being that of the tile or that of the polygon
ArdDocuments(x0, ring) ==
    { [kind |-> "descriptor",
       center_dt |-> ts,
       coord |-> coord,
       valid_data |-> rings] :
         ts \in Timestamps,
         coord \in {Coord(x0), BoxCoord(ring)},
         rings \in {<<ring>>, <<ring, InnerRing(x0)>>} }

----------------------------------------------------------------------------
(* The input trees *)

Places == {T1, T2, Extra, Missing, OUT, LAUNCH, LAUNCH_UP}

\* a NetCDF file: the subdataset names are NETCDF:"<file>":<variable>
\* and bands holds the keys of image.bands of the embedded dataset document
Source(folder, dir, base, names, rastercount, bands) ==
    [folder |-> folder, dir |-> dir, base |-> base,
     subdatasets |-> [i \in 1..Len(names) |-> <<"NETCDF", base, names[i]>>],
     rastercount |-> rastercount,
     bands |-> bands]

\* the variables of a file but the last: its measurements
Measurements(names) == { names[i] : i \in 1..(Len(names) - 1) }

\* two batches of files over two tiles, one file lying a level deeper
Archive ==
    1 :> Source("batch1", T1, "fc1", <<PV, PV_date, DatasetVar>>, 1, {PV, PV_date})
    @@ 2 :> Source("batch2", T1, "fc2", <<PV, DatasetVar>>, 2, {PV})
    @@ 3 :> Source("batch1", T2, "fc3", <<NPV, DatasetVar>>, 1, {NPV})
    @@ 4 :> Source("batch2", Extra, "fc4", <<PV, DatasetVar>>, 1, {PV})

\* the subdataset name lists of at most MaxK different names
NameLists ==
    UNION { { q \in [1..k -> BandPool] :
                \A i, j \in 1..k : i # j => q[i] # q[j] } : k \in 1..MaxK }

InitRest ==
    /\ dirs = {}
    /\ tifs = {}
    /\ yamls = {}
    /\ jsons = {}
    /\ cats = [p \in Places |-> NoDoc]
    /\ scratch = NoScratch
    /\ pc = "idle"
    /\ config = [create_cog |-> FALSE, create_stac |-> FALSE,
                 subfolder |-> "batch1", labels |-> "long"]
    /\ todo = {}
    /\ cur = 0
    /\ pos = 0
    /\ cwd = LAUNCH
    /\ tiles_list = <<>>
    /\ ti = 1
    /\ run = 0
    /\ exit = "none"
    /\ prevDone = {}
    /\ everDone = {}
    /\ touched = {}
    /\ aborted = 0
    /\ written = {}
    /\ visited = {}
    /\ skipped = {}
    /\ prevAborted = 0
    /\ added = {}
    /\ prevItems = {}
    /\ prevCats = [p \in Places |-> NoDoc]
    /\ wrote = {}

\* the archive, an empty output tree
Init ==
    /\ sources = Archive
    /\ InitRest
    /\ environ = NoDoc
    /\ procs = <<>>
    /\ doc = NoDoc
    /\ item = NoDoc

\* a name that has the text ALL in it without being ALL
ALL2 == <<"A", "L", "L", "2">>

\* the values of TILES (<<>>: not set) and of config_json['tiles'] of the
\* invocations that are repeated
EnvSelectors == Selectors \cup {<<>>, <<ALL2>>, <<T1, ALL2>>}
ConfiguredSelectors == {<<T1>>, <<ALL>>, <<T2, T1>>}

\* the output tree as the conversion of some sources of the archive left
\* it, no catalog generated yet, and an invocation to repeat
InitCat ==
    /\ sources = Archive
    /\ \E S \in {{1, 3}, {1, 2, 3}, {1, 2, 3, 4}} :
          /\ dirs = { sources[s].dir : s \in S }
          /\ tifs = UNION { { PairFile(s, p) : p \in 1..Len(Eligible(s)) } :
                              s \in S }
          /\ yamls = UNION { Descriptors(s) : s \in S }
          /\ everDone = S
          /\ prevDone = S
    /\ environ \in [TILES : EnvSelectors, tiles : ConfiguredSelectors,
                    labels : LabelTables, order : Orders({T1, T2, Extra})]
    /\ jsons = {}
    /\ cats = [p \in Places |-> NoDoc]
    /\ scratch = NoScratch
    /\ pc = "idle"
    /\ config = [create_cog |-> TRUE, create_stac |-> FALSE,
                 subfolder |-> "batch1", labels |-> "long"]
    /\ todo = {}
    /\ cur = 0
    /\ pos = 0
    /\ cwd = LAUNCH
    /\ tiles_list = <<>>
    /\ ti = 1
    /\ run = 0
    /\ exit = "ok"
    /\ touched = {}
    /\ aborted = 0
    /\ written = {}
    /\ visited = {}
    /\ skipped = {}
    /\ prevAborted = 0
    /\ added = {}
    /\ prevItems = {}
    /\ prevCats = [p \in Places |-> NoDoc]
    /\ wrote = {}
    /\ procs = <<>>
    /\ doc = NoDoc
    /\ item = NoDoc

\* one file of any shape, an empty output tree, and two invocations of
\* main that have both been started
InitRace ==
    /\ \E names \in NameLists, r \in 1..MaxR :
          \E bands \in SUBSET Measurements(names) :
             sources = 1 :> Source("batch1", T1, "fc1", names, r, bands)
    /\ InitRest
    /\ environ = NoDoc
    /\ procs = [p \in Procs |-> [pc |-> "start", pos |-> 0]]
    /\ doc = NoDoc
    /\ item = NoDoc

\* one file of any shape, an empty output tree
InitConv ==
    /\ \E names \in NameLists, r \in 1..MaxR :
          \E bands \in SUBSET Measurements(names) :
             sources = 1 :> Source("batch1", T1, "fc1", names, r, bands)
    /\ InitRest
    /\ environ = NoDoc
    /\ procs = <<>>
    /\ doc = NoDoc
    /\ item = NoDoc

Convert ==
    \/ \E s \in DOMAIN sources : SkipSource(s)
    \/ \E s \in DOMAIN sources : BeginSource(s)
    \/ \E ok \in BOOLEAN : Extract(ok)
    \/ \E ok \in BOOLEAN : Overview(ok)
    \/ \E ok \in BOOLEAN : Encode(ok)
    \/ WriteDataset
    \/ EndWalk
    \/ Finish

Catalog ==
    \/ ResolveTiles
    \/ JsonsTile
    \/ JsonsDone
    \/ CatalogTile
    \/ RootCatalog

Next ==
    \/ \E cog, stac \in BOOLEAN : StartRun(cog, stac)
    \/ Convert
    \/ Catalog
    \/ \E d \in NewTiles : AddTileDir(d)

NextConv ==
    \/ StartRun(TRUE, FALSE)
    \/ Convert

NextCat ==
    \/ StartSame
    \/ ResolveSame
    \/ JsonsTile
    \/ JsonsDone
    \/ CatalogTile
    \/ RootCatalog

\* one invocation of main, for catalog generation, made again and again
\* over an output tree that nothing else changes
SpecCat == InitCat /\ [][NextCat]_vars

NextRace ==
    \/ \E p \in Procs, s \in DOMAIN sources : MainCheck(p, s)
    \/ \E p \in Procs, s \in DOMAIN sources, ok \in BOOLEAN : CogtiffPair(p, s, ok)
    \/ \E p \in Procs, s \in DOMAIN sources : DatasetWrite(p, s)

\* two invocations of main at once over one file of any shape
SpecRace == InitRace /\ [][NextRace]_vars

\* runs of main over the archive: conversion and catalog generation
Spec == Init /\ [][Next]_vars

\* conversion runs over one file of any shape
SpecConv == InitConv /\ [][NextConv]_vars

\* the source of scenario A: three subdatasets of one band each, in T1
InitA ==
    /\ sources = 1 :> Source("batch1", T1, "fc1",
                             <<PV, NPV, ObservedDate>>, 1, {PV, NPV})
    /\ InitRest
    /\ environ = NoDoc
    /\ procs = <<>>
    /\ doc = NoDoc
    /\ item = NoDoc

\* runs of main over the source of scenario A
SpecA == InitA /\ [][Next]_vars

\* a descriptor of a tile west or of a tile east of 132 E, nothing else
InitItem ==
    /\ sources = Archive
    /\ InitRest
    /\ environ = NoDoc
    /\ procs = <<>>
    /\ \E x0 \in {0 - 4, 1} : \E ring \in OuterRings(x0) :
          doc \in ArdDocuments(x0, ring)
    /\ item = NoDoc

NextItem == CreateItem

\* create_item_dict over the descriptors
SpecItem == InitItem /\ [][NextItem]_vars

----------------------------------------------------------------------------
(* Properties of the conversion *)

InCogtiff == pc \in {"extract", "overview", "encode"}

\* a descriptor of source s, by the names _write_dataset gives
IsDescriptorOf(y, s) ==
    \E d \in Descriptors(s) : d.dir = y.dir /\ d.name = y.name

DescriptorsOnDisk(s) == { y \in yamls : IsDescriptorOf(y, s) }

\* every pair the loops of _write_cogtiff do not skip has its final raster
AllEncoded(s) ==
    \A p \in 1..Len(Eligible(s)) : PairFile(s, p) \in tifs

\* C1: a source that an earlier run converted (it had rasters to emit) and
\* described takes the "File exists" branch in every later run: no extract,
\* overview or encode call is made for it and no descriptor of it is written
\* again.
C1_RerunSkips ==
    \A s \in prevDone :
        Len(Eligible(s)) > 0 =>
            /\ s \notin touched
            /\ s \in visited => s \in skipped

\* C2: the descriptor is a commit marker.  Whenever a descriptor of a source
\* is on disk, every eligible (subdataset, band) pair of the source has been
\* encoded; and a step writes descriptors of a source only after that
\* source's _write_cogtiff has returned with all of them encoded.
C2_CommitMarker ==
    /\ [](\A s \in DOMAIN sources :
             DescriptorsOnDisk(s) # {} => AllEncoded(s))
    /\ [][\A s \in DOMAIN sources :
             DescriptorsOnDisk(s)' # DescriptorsOnDisk(s)
                => pc = "dataset" /\ cur = s /\ ~scratch.exists /\ AllEncoded(s)]_vars

\* C2 witness: a descriptor is on disk for a source with several eligible pairs
C2_Witness ==
    \E s \in DOMAIN sources :
        DescriptorsOnDisk(s) # {} /\ Len(Eligible(s)) >= 2 /\ pc = "walk"

\* C3: every asset path of the band map of a descriptor on disk names a
\* final raster that is on disk, in the directory of the descriptor.
C3_AssetsExist ==
    \A y \in yamls : \A key \in DOMAIN y.bands :
        [dir |-> y.dir, name |-> y.bands[key], stage |-> "cog"] \in tifs

\* the subdataset indexes the slice subdatasets[:-1] covers
Converted(s) == 1..(K(s) - 1)

ReservedAmong(s, idx) ==
    Cardinality({ i \in idx : Reserved(get_bandname(sources[s].subdatasets[i])) })

\* C4 as stated: a _write_cogtiff that returned has emitted
\* (K-1) x (R - number of reserved-suffix names present) final rasters.
C4_BandCountAsStated ==
    pc = "dataset" =>
        Cardinality(written)
            = (K(cur) - 1) * (R(cur) - ReservedAmong(cur, 1..K(cur)))

\* C4 amended: a _write_cogtiff that returned has emitted R final rasters
\* for each of the first K-1 subdatasets whose name has no reserved suffix.
C4_BandCount ==
    pc = "dataset" =>
        Cardinality(written)
            = R(cur) * ((K(cur) - 1) - ReservedAmong(cur, Converted(cur)))

\* C4 witness: a stacked source with a reserved name among the first K-1
\* subdatasets has been converted
C4_Witness ==
    /\ pc = "dataset"
    /\ R(cur) > 1
    /\ K(cur) >= 3
    /\ ReservedAmong(cur, Converted(cur)) = 1
    /\ Cardinality(written) = R(cur)

\* C6: after a failed step aborted the conversion of a source, no descriptor
\* of the source is on disk and the rasters the attempt wrote are still
\* there; the next run does not skip the source.
C6_AbortLeavesNoDescriptor ==
    /\ (pc = "idle" /\ aborted # 0)
          => DescriptorsOnDisk(aborted) = {} /\ written \subseteq tifs
    /\ prevAborted # 0 => prevAborted \notin skipped

\* C7: the scratch directory exists while _write_cogtiff converts and is
\* gone, with its files, whenever _write_cogtiff is not running, however it
\* was left; temporary rasters are in the scratch directory only.
C7_ScratchRemoved ==
    /\ InCogtiff => scratch.exists
    /\ ~InCogtiff => scratch = NoScratch
    /\ \A f \in scratch.files : f.dir = TMP
    /\ \A f \in tifs : f.dir \in dirs /\ f.stage = "cog"

\* C7 witness: a step failed after temporary rasters had been made
C7_Witness ==
    /\ pc = "idle"
    /\ exit = "RuntimeError"
    /\ aborted # 0
    /\ written # {}

\* the sources os.walk yields in the run
InWalk == { s \in DOMAIN sources : sources[s].folder = config.subfolder }

\* C5 as stated: when a step of one source fails, the loop of main goes on:
\* every source of the walk gets its turn and the run ends without an error.
C5_AbortSkipsOneSource ==
    (pc = "idle" /\ aborted # 0) =>
        /\ \A s \in InWalk : s \in visited
        /\ exit = "ok"

\* C5 amended: when a step of one source fails, the run ends there with an
\* error: the process is over, no source is left to the walk and the catalog
\* stage of that run has not started.
C5_AbortEndsRun ==
    aborted # 0 =>
        /\ pc = "idle"
        /\ exit = "RuntimeError"
        /\ todo = {}
        /\ tiles_list = <<>>

\* C5 witness: a step failed while a source of the walk had not had its
\* turn, in a run that was to generate the catalogs
C5_Witness ==
    /\ pc = "idle"
    /\ aborted # 0
    /\ config.create_stac
    /\ \E s \in InWalk : s \notin visited

----------------------------------------------------------------------------
(* Properties of the catalogs *)

\* a run that generated the catalogs has ended without an error
StacRunDone == pc = "idle" /\ exit = "ok" /\ config.create_stac

\* the JSON files of a directory other than its catalog.json
JsonFiles(d) ==
    { n \in ListDir(d) : EndsWith(n, ".json") /\ n # CatalogName }

\* C8: after a catalog-generation run, the item links of every tile catalog
\* on disk are the non-catalog JSON files of the directory of the tile the
\* catalog names.
C8_CatalogComplete ==
    StacRunDone =>
        \A place \in DOMAIN cats :
            cats[place].kind = "tile"
                => cats[place].items = JsonFiles(cats[place].name)

\* the tiles of the list, when they are two or more existing tiles
TileSet == { tiles_list[i] : i \in 1..Len(tiles_list) }

\* C9: after a catalog-generation run over two or more existing tiles, every
\* tile of the list has, in its own directory, a tile catalog naming it.
C9_OwnCatalog ==
    (/\ StacRunDone
     /\ Cardinality(TileSet) >= 2
     /\ \A t \in TileSet : t \in dirs /\ ~RejectedTile(t))
        => \A t \in TileSet :
              cats[t].kind = "tile" /\ cats[t].name = t

\* C10: the child links of the root catalog a run generates are the tile
\* directories under output_dir: every tile directory, and nothing else.
C10_ChildLinks ==
    StacRunDone =>
        /\ cats[ParentOf(cwd)].kind = "root"
        /\ cats[ParentOf(cwd)].children = { d \in dirs : ~RejectedTile(d) }

\* the directories made since the catalog generation before this one
Fresh == { a[1] : a \in { b \in added : b[2] < run } }

CatalogsRan ==
    /\ pc = "idle"
    /\ config.create_stac
    /\ exit \in {"ok", "UnboundLocalError"}

\* C12: every catalog generation, whatever its tile list (an empty list, a
\* list none of whose tiles create_jsons entered), leaves a root catalog at
\* output_dir and no catalog above the directory the program was started in.
C12_RootAtOutputRoot ==
    CatalogsRan =>
        /\ cats[OUT].kind = "root"
        /\ cats[LAUNCH_UP] = NoDoc

----------------------------------------------------------------------------
(* Properties of the Items *)

\* the vertices of a geometry
Vertices(geometry) ==
    UNION { { geometry[r][i] : i \in 1..Len(geometry[r]) } :
            r \in 1..Len(geometry) }

\* C13: the bbox of an Item is [min lon, min lat, max lon, max lat] over the
\* vertices of the geometry of the Item (here: of Items of one ring).
C13_BboxLaw ==
    (item # NoDoc /\ Len(item.geometry) = 1) =>
        LET lons == { v[1] : v \in Vertices(item.geometry) }
            lats == { v[2] : v \in Vertices(item.geometry) }
        IN  item.bbox = <<Min(lons), Min(lats), Max(lons), Max(lats)>>

\* the instant of a timestamp text that has a zone, in seconds
Instant(text) == text.clock - 60 * UTCOffset(text.zone)

\* C14: the datetime of an Item has a zone and no fraction of a second; a
\* center timestamp without a zone gets UTC and keeps its clock, one with a
\* zone keeps its offset and its instant (to the second).
C14_Timestamp ==
    item # NoDoc =>
        LET in == doc.center_dt
            out == item.datetime
        IN  /\ out.zone # ""
            /\ out.frac = 0
            /\ in.zone = "" => out.zone = "+00:00" /\ out.clock = in.clock
            /\ in.zone # "" => /\ UTCOffset(out.zone) = UTCOffset(in.zone)
                               /\ Instant(out) = Instant(in)

\* C14 witness: Items have been built from a timestamp without a zone and
\* from one east of Greenwich with a fraction of a second
C14_Witness ==
    /\ item # NoDoc
    /\ doc.center_dt.frac # 0
    /\ doc.center_dt.zone = "+10:00"
    /\ item.datetime.zone = "+10:00"

\* C20: the geometry of an Item has the rings of the valid-data polygon of
\* the descriptor, vertex for vertex: vertex i of ring r is the projection
\* of vertex i of ring r, and a closed ring stays closed.
C20_EveryVertexProjected ==
    item # NoDoc =>
        LET in == doc.valid_data
            out == item.geometry
        IN  /\ Len(out) = Len(in)
            /\ \A r \in 1..Len(in) :
                  /\ Len(out[r]) = Len(in[r])
                  /\ \A i \in 1..Len(in[r]) : out[r][i] = transform(in[r][i])
                  /\ in[r][1] = in[r][Len(in[r])]
                        => out[r][1] = out[r][Len(out[r])]

----------------------------------------------------------------------------
(* Properties of create_jsons *)

\* the characters a tile name is made of, as the claim has it
TileChars == Digits \cup {"-"}

\* C15 as stated: create_jsons writes Items only into directories whose
\* name has no character, at any position, other than a digit or a hyphen.
C15_NoOtherCharacter ==
    \A j \in jsons : \A i \in 1..Len(j.dir) : j.dir[i] \in TileChars

\* C15 amended: create_jsons writes Items only into directories whose name
\* begins with a digit or a hyphen; the rest of the name is not looked at.
C15_FirstCharacter ==
    \A j \in jsons : j.dir[1] \in TileChars

\* C15 witness: with the selector ALL expanded to every directory, Items
\* were written for T1, whose name has an underscore, and none for the
\* descriptors of the directory extra
C15_Witness ==
    /\ StacRunDone
    /\ Extra \in TileSet
    /\ \E y \in yamls : y.dir = Extra
    /\ \E j \in jsons : j.dir = T1 /\ \E i \in 1..Len(T1) : T1[i] \notin TileChars

\* the tiles of the list that create_jsons entered
Entered == { t \in TileSet : t \in dirs /\ ~RejectedTile(t) }

\* C16: a catalog generation whose list names a tile without a directory,
\* beside a tile that has one, ends without an error (no descriptor having
\* failed in create_jsons) and with the root catalog written.
C16_MissingTileSkipped ==
    (/\ pc = "idle"
     /\ config.create_stac
     /\ exit \notin {"none", "RuntimeError", "KeyError"}
     /\ \E i \in 1..Len(tiles_list) : tiles_list[i] \notin dirs
     /\ Entered # {})
        => /\ exit = "ok"
           /\ cats[ParentOf(cwd)].kind = "root"

\* scenario A has run: one run of main that converted the source and
\* generated the catalogs of its tile
ScenarioDone ==
    /\ StacRunDone
    /\ run = 1
    /\ config.create_cog
    /\ T1 \in TileSet

\* C17 as stated: scenario A leaves 2 final assets, 2 descriptors, 2 Items
\* and a tile catalog with 2 item links.
C17_ScenarioAsStated ==
    ScenarioDone =>
        /\ Cardinality(tifs) = 2
        /\ Cardinality(yamls) = 2
        /\ Cardinality(jsons) = 2
        /\ cats[T1].kind = "tile" /\ Cardinality(cats[T1].items) = 2

\* C17 amended: scenario A leaves 2 final assets (PV, NPV), 1 descriptor,
\* 1 Item and a tile catalog with 1 item link.
C17_ScenarioA ==
    ScenarioDone =>
        /\ { f.name : f \in tifs } = { <<"fc1", "_", "PV", ".tif">>,
                                       <<"fc1", "_", "NPV", ".tif">> }
        /\ Cardinality(tifs) = 2
        /\ Cardinality(yamls) = 1
        /\ Cardinality(jsons) = 1
        /\ cats[T1].kind = "tile" /\ Cardinality(cats[T1].items) = 1

\* C17 witness: scenario A has run and the Item has the two assets
C17_Witness ==
    /\ ScenarioDone
    /\ \E j \in jsons : Cardinality(DOMAIN j.assets) = 2

\* C18: after a catalog generation, every descriptor of every tile that
\* create_jsons entered has one Item, and it is the Item that this run
\* makes of the descriptor.
C18_ItemPerDescriptor ==
    StacRunDone =>
        \A y \in yamls :
            y.dir \in Entered =>
                { j \in jsons : j.dir = y.dir /\ j.yaml = y.name }
                    = { ItemOf(y, config.labels) }

\* C18 witness: an Item that was there when the run started has been
\* replaced by a different one
C18_Witness ==
    /\ StacRunDone
    /\ \E y \in yamls : \E j \in prevItems :
          /\ y.dir \in Entered
          /\ j.dir = y.dir
          /\ j.name = ItemFname(y.name)
          /\ j # ItemOf(y, config.labels)
          /\ ItemOf(y, config.labels) \in jsons

\* C19: a catalog generation over existing tiles, one of which has a
\* descriptor that create_item_dict cannot make an Item of, ends without
\* an error, with the Items of the other descriptors written.
C19_BadDescriptorSkipped ==
    (/\ pc = "idle"
     /\ config.create_stac
     /\ exit \notin {"none", "RuntimeError"}
     /\ \A i \in 1..Len(tiles_list) : tiles_list[i] \in dirs
     /\ \E t \in Entered : \E y \in Globbed(t) :
           ItemRaises(y, config.labels) # "none")
        => /\ exit = "ok"
           /\ \A t \in Entered : \A y \in Globbed(t) :
                 ItemRaises(y, config.labels) = "none"
                    => ItemOf(y, config.labels) \in jsons


----------------------------------------------------------------------------
(* Properties of the descriptors and of the raster names *)

\* the names of the descriptors on disk that carry the base name of a source
DescriptorNames(s) ==
    { y.name : y \in { z \in yamls : /\ z.dir = sources[s].dir
                                     /\ z.name[1] = sources[s].base } }

\* C23 as stated: _write_dataset leaves one descriptor <base>_<ordinal>.yaml
\* for each subdataset of a stacked source (as many descriptors as the source
\* has subdatasets), and the one descriptor <base>.yaml when R = 1.
C23_DescriptorPerSubdataset ==
    \A s \in everDone :
        DescriptorNames(s)
            = IF R(s) > 1
              THEN { <<sources[s].base, "_", Str(i), ".yaml">> : i \in 1..K(s) }
              ELSE { <<sources[s].base, ".yaml">> }

\* C23 amended: _write_dataset leaves one descriptor <base>_<ordinal>.yaml
\* for each band number 1..R of a stacked source (R descriptors), and the one
\* descriptor <base>.yaml when R = 1; the ordinal of a descriptor is the band
\* number of the raster names: the paths of its band map carry it, and so do
\* the rasters that _write_cogtiff emitted for that band number.
C23_DescriptorPerBand ==
    \A s \in everDone :
        LET base == sources[s].base
        IN  IF R(s) > 1
            THEN /\ DescriptorNames(s)
                       = { <<base, "_", Str(c), ".yaml">> : c \in 1..R(s) }
                 /\ \A c \in 1..R(s) :
                       \A y \in yamls :
                          (y.dir = sources[s].dir
                             /\ y.name = <<base, "_", Str(c), ".yaml">>)
                             => \A key \in DOMAIN y.bands :
                                   y.bands[key]
                                      = <<base, "_", Str(c), "_">> \o key
                                           \o <<".tif">>
                 /\ \A p \in 1..Len(Eligible(s)) :
                       [dir |-> sources[s].dir,
                        name |-> <<base, "_", Str(Eligible(s)[p][2]), "_">>
                                 \o get_bandname(
                                      sources[s].subdatasets[Eligible(s)[p][1]])
                                 \o <<".tif">>,
                        stage |-> "cog"] \in tifs
            ELSE DescriptorNames(s) = { <<base, ".yaml">> }

\* C23 witness: a stacked source with more subdatasets than bands, one of
\* them converted, has its descriptors
C23_Witness ==
    \E s \in everDone :
        R(s) = 2 /\ K(s) = 3 /\ Len(Eligible(s)) >= 2 /\ pc = "walk"

\* C26: within one conversion, the (subdataset, band number) pairs that are
\* not skipped get pairwise different final paths and pairwise different
\* temporary paths: after n pairs there are n final rasters and n temporary
\* rasters, whatever R is.
C26_DistinctPaths ==
    /\ InCogtiff =>
          /\ Cardinality({ f.name : f \in written }) = pos - 1
          /\ Cardinality({ f.name : f \in scratch.files })
                = IF pc = "extract" THEN pos - 1 ELSE pos
    /\ pc = "dataset" =>
          Cardinality({ f.name : f \in written }) = Len(Eligible(cur))

\* C26 witness: a stacked source with two subdatasets to convert has been
\* through _write_cogtiff
C26_Witness ==
    pc = "dataset" /\ R(cur) = 2 /\ Len(Eligible(cur)) = 4

\* C27: a descriptor of a source is on disk only if a final raster of that
\* source is: no descriptor is written for a source for which
\* _write_cogtiff emitted no raster.
C27_DoneOnlyWithOutput ==
    \A s \in DOMAIN sources :
        DescriptorNames(s) # {}
            => \E f \in tifs : /\ f.dir = sources[s].dir
                               /\ f.name[1] = sources[s].base


----------------------------------------------------------------------------
(* Properties of the documents of the catalog *)

\* the tiles create_jsons has gone through, the one it was at when it
\* raised included
JsonsReached ==
    { tiles_list[i] : i \in { k \in 1..Len(tiles_list) :
                                 /\ pc = "jsons" => k < ti
                                 /\ (pc = "idle" /\ exit = "KeyError") => k <= ti } }

\* C24: the Item of a descriptor has one asset entry per band key, under
\* the label of the key or, when the table has no label for it, under the
\* band key itself, and the entry holds the path the descriptor records for
\* that key; no two band keys share an entry.
C24_AssetPerBandKey ==
    LET ExpectedAssetKey(key, table) ==
            IF key \in DOMAIN Labels(table)
            THEN <<Labels(table)[key], " GeoTIFF">>
            ELSE key
    IN
    (\/ pc \in {"jsons", "catalogs"}
     \/ pc = "idle" /\ config.create_stac /\ exit \notin {"none", "RuntimeError"})
        => \A t \in Entered \cap JsonsReached : \A y \in Globbed(t) :
              \E j \in jsons :
                 /\ j.dir = t
                 /\ j.name = ItemFname(y.name)
                 /\ DOMAIN j.assets
                       = { ExpectedAssetKey(key, config.labels) :
                              key \in DOMAIN y.bands }
                 /\ Cardinality(DOMAIN j.assets) = Cardinality(DOMAIN y.bands)
                 /\ \A key \in DOMAIN y.bands :
                       j.assets[ExpectedAssetKey(key, config.labels)]
                          = y.bands[key]

\* C25: after a completed catalog generation, every child link of the root
\* catalog it wrote leads to a directory that holds a tile catalog named
\* after that directory, the tiles outside the selector included.
C25_ChildLinksResolve ==
    StacRunDone =>
        \A d \in cats[ParentOf(cwd)].children :
            cats[d].kind = "tile" /\ cats[d].name = d

\* C28: the self href of an Item lies in the URL directory of the self href
\* of the catalog of its tile (base URL, product segment, tile segment).
C28_UrlConsistency ==
    LET UrlDir(href) == SubSeq(href, 1, Len(href) - 1)
    IN
    \A j \in jsons : \A place \in Places :
        (cats[place].kind = "tile" /\ cats[place].name = j.dir)
            => UrlDir(j.self) = UrlDir(cats[place].self)

\* C29: create_catalogs builds a tile catalog only for a tile for which
\* create_jsons builds Items: no tile catalog is built for a name that
\* create_jsons turns away.
C29_SameTileSet ==
    [][(pc = "catalogs" /\ ti' = ti + 1) => ~RejectedTile(tiles_list[ti])]_vars


----------------------------------------------------------------------------
(* Properties of a repeated catalog generation *)

\* C22 as stated: the selector of the environment, when there is one, is
\* used instead of the configured one; the tile list is the directories of
\* the output root exactly when that selector is the ALL sentinel, and is
\* the selector as given otherwise.
C22_ExpandedWhenSentinel ==
    pc \in {"jsons", "catalogs"} =>
        LET sel == IF environ.TILES # <<>> THEN environ.TILES ELSE environ.tiles
        IN  IF sel = <<ALL>>
            THEN /\ { tiles_list[i] : i \in 1..Len(tiles_list) } = dirs
                 /\ Len(tiles_list) = Cardinality(dirs)
            ELSE tiles_list = sel

\* C22 amended: the selector of the environment, when there is one, is used
\* instead of the configured one; the tile list is the directories of the
\* output root exactly when the first name of that selector has the text
\* ALL in it, and is the selector as given otherwise.
C22_ExpandedWhenFirstHasALL ==
    pc \in {"jsons", "catalogs"} =>
        LET sel == IF environ.TILES # <<>> THEN environ.TILES ELSE environ.tiles
            first == sel[1]
        IN  IF \E i \in 1..(Len(first) - 2) :
                  first[i] = "A" /\ first[i + 1] = "L" /\ first[i + 2] = "L"
            THEN /\ { tiles_list[i] : i \in 1..Len(tiles_list) } = dirs
                 /\ Len(tiles_list) = Cardinality(dirs)
            ELSE tiles_list = sel

\* C22 witness: the environment's selector ALL is used over a configured
\* list, and a tile list of several directories is resolved
C22_Witness ==
    /\ pc = "jsons"
    /\ environ.TILES = <<ALL>>
    /\ environ.tiles = <<T2, T1>>
    /\ Len(tiles_list) = 3

\* C30: a catalog generation that follows a catalog generation of the same
\* invocation, nothing else having changed the output tree, leaves every
\* Item, every tile catalog and the root catalog as the first left them.
C30_Idempotent ==
    (StacRunDone /\ run >= 2) => (jsons = prevItems /\ cats = prevCats)

\* C30 witness: the second generation has ended; a tile directory holds a
\* tile catalog with item links and the Items of that tile
C30_Witness ==
    /\ StacRunDone
    /\ run = 2
    /\ \E d \in TileSet :
          /\ cats[d].kind = "tile"
          /\ cats[d].items # {}
          /\ \E j \in jsons : j.dir = d
    /\ cats[OUT].kind = "root"


----------------------------------------------------------------------------
(* Properties of two invocations at once *)

\* C21: the existence check of the descriptor and the conversion are not
\* one atomic step.  A process whose check finds no descriptor enters the
\* conversion whatever the other process is doing, the check being all
\* that keeps a process out; so two processes started while there is no
\* descriptor can both convert, and write the rasters and descriptors twice.
C21_CheckThenAct ==
    [][\A p \in Procs :
          (procs[p].pc = "start" /\ procs'[p].pc # "start")
             => IF \E y \in yamls : /\ y.dir = sources[1].dir
                                    /\ y.name = <<sources[1].base, ".yaml">>
                THEN procs'[p].pc = "skipped"
                ELSE procs'[p].pc \in {"convert", "dataset"}]_vars

\* C21 witness: both processes have been through the conversion, and each
\* of them has written every raster and every descriptor of the source
C21_Witness ==
    /\ \A p \in Procs : procs[p].pc = "done"
    /\ Len(Eligible(1)) >= 2
    /\ \A p \in Procs :
          /\ \A f \in tifs : <<p, f.name>> \in wrote
          /\ \A y \in yamls : <<p, y.name>> \in wrote

====
